---- MODULE Spec2Model ----
(***************************************************************************)
(* State-machine model of the Insurance Claim Platform front end:          *)
(*   App (src/App.tsx 54-260)            the claim store, role, selection   *)
(*   ClaimDetail (src/App.tsx 280-674)   the per-claim handlers             *)
(*   CreateClaimModal (src/unnamed/part_002 11-133)                         *)
(*   geminiService (src/unnamed/part_002 134-295)  the AI gateway adapter   *)
(*                                                                         *)
(* React renders after every state update and before the next user event,  *)
(* so the `claim` prop a ClaimDetail handler closes over is the selected    *)
(* claim of the current store.  Each handler is one atomic action (a        *)
(* JavaScript event handler runs to completion); handleCreateClaim is cut   *)
(* at its three awaits.                                                     *)
(***************************************************************************)
EXTENDS Integers, Sequences, FiniteSets, TLC

VARIABLES
    userRole,           \* App state, src/App.tsx 56
    claims,             \* App state, src/App.tsx 57: sequence of Claim, newest first
    selectedClaimId,    \* App state, src/App.tsx 58 ("null" when none)
    intake,             \* the pending handleCreateClaim call: its position and locals
    now                 \* Date.now(), in milliseconds since the page was loaded

vars == <<userRole, claims, selectedClaimId, intake, now>>

----------------------------------------------------------------------------
(* Bounds of the model *)

\* the store holds at most this many claims (INITIAL_CLAIMS holds one)
MaxClaims == 2
\* the comment threads of the store hold at most this many comments together
\* (INITIAL_CLAIMS holds one)
MaxComments == 3

----------------------------------------------------------------------------
(* Enumerations, src/unnamed/part_000 *)

Policyholder == "Policyholder"
RepairShop == "Repair Shop"
InsuranceAgent == "Insurance Agent"
UserRole == {Policyholder, RepairShop, InsuranceAgent}

Submitted == "Submitted"
AIReview == "AI Review"
Estimated == "Estimated"
Approved == "Approved"
InRepair == "In Repair"
PickUpPending == "Pick Up Pending"
Closed == "Closed"
Rejected == "Rejected"
ClaimStatus ==
    {Submitted, AIReview, Estimated, Approved, InRepair, PickUpPending, Closed, Rejected}

\* An optional field (`x?: T`) is the empty sequence when undefined, <<v>> otherwise.
Absent == <<>>
Some(v) == <<v>>
Present(o) == o # Absent

----------------------------------------------------------------------------
(* Strings typed into form fields are sequences of characters, so that      *)
(* trim, parseFloat and formatCurrency are computed, not assumed.           *)

RECURSIVE Str(_)
\* the JavaScript string made of the characters cs
Str(cs) == IF cs = <<>> THEN "" ELSE Head(cs) \o Str(Tail(cs))

RECURSIVE TrimStart(_)
TrimStart(cs) ==
    IF cs # <<>> /\ Head(cs) = " " THEN TrimStart(Tail(cs)) ELSE cs

RECURSIVE TrimEnd(_)
TrimEnd(cs) ==
    IF cs # <<>> /\ cs[Len(cs)] = " " THEN TrimEnd(SubSeq(cs, 1, Len(cs) - 1)) ELSE cs

\* String.prototype.trim
trim(cs) == TrimEnd(TrimStart(cs))

DigitChars == <<"0", "1", "2", "3", "4", "5", "6", "7", "8", "9">>
DigitValue(ch) == (CHOOSE k \in 1..10 : DigitChars[k] = ch) - 1

RECURSIVE ParseDigits(_, _)
ParseDigits(cs, acc) ==
    IF cs = <<>> THEN acc ELSE ParseDigits(Tail(cs), 10 * acc + DigitValue(Head(cs)))

\* parseFloat on what an <input type="number"> delivers with whole-dollar entries:
\* an optional minus sign and decimal digits.
parseFloat(cs) ==
    IF Head(cs) = "-" THEN 0 - ParseDigits(Tail(cs), 0) ELSE ParseDigits(cs, 0)

Pad3(n) ==
    IF n < 10 THEN "00" \o ToString(n)
    ELSE IF n < 100 THEN "0" \o ToString(n) ELSE ToString(n)

RECURSIVE Grouped(_)
\* en-US digit grouping of a natural number
Grouped(n) ==
    IF n < 1000 THEN ToString(n) ELSE Grouped(n \div 1000) \o "," \o Pad3(n % 1000)

\* Intl.NumberFormat('en-US', {style: 'currency', currency: 'USD'}).format(amount)
\* for a whole-dollar amount
formatCurrency(amount) ==
    IF amount < 0 THEN "-$" \o Grouped(0 - amount) \o ".00"
    ELSE "$" \o Grouped(amount) \o ".00"

----------------------------------------------------------------------------
(* Values typed by the user *)

\* comment box: empty, blank, and a real comment
CommentTexts == { <<>>, <<" ", " ">>, <<"h", "i">> }
\* rejection reason textarea
RejectReasons == { "", "Fraud suspected" }
\* negotiation justification
NegotiationReasons == { "", "Found structural damage" }
\* negotiation amount (<input type="number">: empty when not a number)
NegotiationAmounts == { <<>>, <<"-", "5">>, <<"1", "5", "0", "0">> }
\* the create form: policy number and number of images picked
PolicyNumbers == { "", "POL-1" }
ImageCounts == { 0, 1 }

----------------------------------------------------------------------------
(* The claim record, src/unnamed/part_000 41-72.  The static facts          *)
(* (policyholderName, vehicleModel, vehicleYear, accidentDetails) and the    *)
(* comments' id and timestamp are written once and never read by a handler;  *)
(* they are left out.                                                        *)

\* Estimate, src/unnamed/part_000 26-32
Estimate(total, labor, parts, details, source) ==
    [totalCost |-> total, laborCost |-> labor, partsCost |-> parts,
     details |-> details, source |-> source]

\* Comment, src/unnamed/part_000 18-24
Comment(role, name, text) ==
    [authorRole |-> role, authorName |-> name, text |-> text]

\* Date.now().toString().  The clock `now` counts the milliseconds since the page
\* was loaded; the page is loaded long after the epoch, so no such string is "1",
\* the id of the initial claim.
DateNowString(t) == "T+" \o ToString(t)

InitialAiEstimate ==
    Estimate(1200, 500, 700,
             "Replace Rear Bumper Cover, Replace Impact Absorber, Paint & Blend.", "AI")

\* INITIAL_CLAIMS
INITIAL_CLAIMS ==
    << [id |-> "1",
        policyNumber |-> "POL-883920",
        status |-> Estimated,
        damageImages |-> <<>>,
        aiDamageAssessment |-> Some("Observed significant denting on rear bumper cover."),
        aiEstimate |-> Some(InitialAiEstimate),
        currentEstimate |-> Some(InitialAiEstimate),
        repairShopEstimate |-> Absent,
        agentEstimate |-> Absent,
        suggestedShops |->
            Some(<< [name |-> "Downtown Auto Fix", address |-> "123 Main St", rating |-> "4.5"],
                    [name |-> "Quick Collision", address |-> "44 Broadway", rating |-> "4.2"] >>),
        comments |-> << Comment(Policyholder, "John Doe", "Happened yesterday around 5pm.") >>,
        updatedAt |-> 0] >>

RECURSIVE TotalComments(_)
\* the number of comments in the store
TotalComments(cs) ==
    IF cs = <<>> THEN 0 ELSE Len(Head(cs).comments) + TotalComments(Tail(cs))

\* the ids in the store
Ids(cs) == { cs[i].id : i \in DOMAIN cs }

\* claims.find(c => c.id === id): the first claim with that id
Find(cs, id) == cs[CHOOSE i \in DOMAIN cs : cs[i].id = id /\ \A j \in 1..(i - 1) : cs[j].id # id]

\* const selectedClaim = claims.find(c => c.id === selectedClaimId)
HasSelectedClaim == selectedClaimId \in Ids(claims)
selectedClaim == Find(claims, selectedClaimId)

\* a variant of handleUpdateClaim whose map does not compare ids
handleUpdateClaimEveryClaim(cs, updatedClaim) ==
    [i \in DOMAIN cs |-> updatedClaim]

\* prev.map(c => c.id === updatedClaim.id ? updatedClaim : c)
handleUpdateClaim(cs, updatedClaim) ==
    [i \in DOMAIN cs |-> IF cs[i].id = updatedClaim.id THEN updatedClaim ELSE cs[i]]

----------------------------------------------------------------------------
(* geminiService: what the awaited calls can resolve to *)

\* fileToGenerativePart: the base64 payload of one image
Base64Image == "aGVsbG8="

\* analyzeDamage, the value returned from the try block when the response carries
\* every field of the schema
AnalysisOk ==
    [assessment |-> Some("Front bumper cracked, hood dented."),
     estimate |-> Estimate(2000, 800, 1200, "Replace front bumper, repair hood.", "AI")]

\* analyzeDamage, the value returned from the try block when response.text is empty:
\* JSON.parse("{}") has none of the fields, so every field read from it is undefined
AnalysisEmpty ==
    [assessment |-> Absent,
     estimate |-> [source |-> "AI"]]

\* analyzeDamage, the value returned from the catch block
AnalysisFallback ==
    [assessment |-> Some("AI Analysis unavailable. Please review manually."),
     estimate |-> Estimate(0, 0, 0, "Manual estimation required.", "AI")]

\* how ai.models.generateContent can end inside analyzeDamage
GenerateOutcomes == {"ok", "empty", "throws"}

analyzeDamage(outcome) ==
    CASE outcome = "ok" -> AnalysisOk
      [] outcome = "empty" -> AnalysisEmpty
      [] outcome = "throws" -> AnalysisFallback

\* findRepairShops, the built-in list returned when no suggestion was extracted
BuiltinShops ==
    << [name |-> "FixItRight Auto Body", address |-> "123 Main St, Local City", rating |-> "4.8"],
       [name |-> "Prestige Collision Center", address |-> "450 Oak Ave, Local City", rating |-> "4.5"],
       [name |-> "Quick Fix Garage", address |-> "789 Pine Ln, Local City", rating |-> "4.2"] >>

\* findRepairShops, the suggestions pushed for one web grounding chunk
WebShops ==
    << [name |-> "Bay Auto Body", address |-> "Check website for address",
        websiteUri |-> "https://example.com/bay"] >>

\* how the search can end: with a web chunk, with no usable chunk, or thrown
SearchOutcomes == {"chunks", "nochunks", "throws"}

\* a variant of findRepairShops whose catch block returns the built-in list
findRepairShopsFallbackList(outcome) ==
    CASE outcome = "chunks" -> WebShops
      [] outcome = "nochunks" -> BuiltinShops
      [] outcome = "throws" -> BuiltinShops

findRepairShops(outcome) ==
    CASE outcome = "chunks" -> WebShops
      [] outcome = "nochunks" -> BuiltinShops
      [] outcome = "throws" -> <<>>

----------------------------------------------------------------------------
(* ClaimDetail: the claim each handler hands to onUpdateClaim.              *)
(* `{ ...claim }` copies the claim shallowly, so `updatedClaim.comments`    *)
(* is the very array of the stored claim and push() appends to it in        *)
(* place; the handler then replaces the stored claim by updatedClaim, which *)
(* holds the same array.  Nothing runs between the push and the update, so  *)
(* the store goes from the old claim to updatedClaim in one step.           *)

\* a variant of AddedComment with the author fixed to the policyholder
AddedCommentByPolicyholder(claim, role, text) ==
    [claim EXCEPT !.comments = Append(@, Comment(Policyholder, Policyholder, Str(text)))]

\* a variant of AddedComment that puts the new comment first
AddedCommentPrepends(claim, role, text) ==
    [claim EXCEPT !.comments = <<Comment(role, role, Str(text))>> \o @]

\* handleAddComment: { ...claim, comments: [...claim.comments, newComment] }
AddedComment(claim, role, text) ==
    [claim EXCEPT !.comments = Append(@, Comment(role, role, Str(text)))]

\* handleStatusChange: { ...claim, status: newStatus }
StatusChanged(claim, newStatus) ==
    [claim EXCEPT !.status = newStatus]

\* a variant of ApprovedClaim that makes the AI estimate current again on approval
ApprovedClaimResetsCurrent(claim) ==
    [claim EXCEPT !.status = Approved, !.currentEstimate = claim.aiEstimate]

\* handleApproveEstimate: { ...claim, status: ClaimStatus.Approved }
ApprovedClaim(claim) ==
    [claim EXCEPT !.status = Approved]

\* the text of the rejection comment
RejectionText(reason) == "CLAIM REJECTED: " \o reason

\* handleRejectClaim: updatedClaim after the push
RejectedClaim(claim, reason) ==
    [claim EXCEPT !.status = Rejected,
                  !.comments = Append(@, Comment(InsuranceAgent, "Agent", RejectionText(reason)))]

\* handleNegotiate: newEstimate.  amount * 0.6 and amount * 0.4 are exact for the
\* whole-dollar multiples of five the model enters.
NewEstimate(role, amount, reason) ==
    Estimate(amount, (amount * 6) \div 10, (amount * 4) \div 10, reason,
             IF role = InsuranceAgent THEN "Insurance Agent" ELSE "Repair Shop")

\* the text of the proposal comment
ProposalText(amount, reason) ==
    "Proposed new estimate: " \o formatCurrency(amount) \o ". Reason: " \o reason

\* a variant of WithEstimate in which the shop's proposal becomes current too
WithEstimateShopOverrides(claim, role, newEstimate) ==
    IF role = RepairShop
    THEN [claim EXCEPT !.repairShopEstimate = Some(newEstimate),
                       !.currentEstimate = Some(newEstimate)]
    ELSE IF role = InsuranceAgent
    THEN [claim EXCEPT !.agentEstimate = Some(newEstimate),
                       !.currentEstimate = Some(newEstimate)]
    ELSE claim

\* handleNegotiate: updatedClaim after the role branch
WithEstimate(claim, role, newEstimate) ==
    IF role = RepairShop
    THEN [claim EXCEPT !.repairShopEstimate = Some(newEstimate)]
    ELSE IF role = InsuranceAgent
    THEN [claim EXCEPT !.agentEstimate = Some(newEstimate),
                       !.currentEstimate = Some(newEstimate)]
    ELSE claim

\* a variant of NegotiatedClaim that pushes the comment onto a copy of the thread,
\* so that the claim handed to onUpdateClaim does not carry it
NegotiatedClaimCommentLost(claim, role, amountText, reason) ==
    WithEstimate(claim, role, NewEstimate(role, parseFloat(amountText), reason))

\* handleNegotiate: updatedClaim after the push
NegotiatedClaim(claim, role, amountText, reason) ==
    LET amount == parseFloat(amountText)
        updatedClaim == WithEstimate(claim, role, NewEstimate(role, amount, reason))
    IN  [updatedClaim EXCEPT
            !.comments = Append(@, Comment(role, role, ProposalText(amount, reason)))]

----------------------------------------------------------------------------
(* handleCreateClaim *)

\* no handleCreateClaim call is pending
Idle == [pc |-> "idle"]

\* CreateClaimModal's `loading`: true from the submit until onSubmit has settled
loading == intake.pc # "idle"

\* baseClaim
BaseClaim(newId, policyNumber, t) ==
    [id |-> newId,
     policyNumber |-> policyNumber,
     status |-> AIReview,
     damageImages |-> <<>>,
     aiDamageAssessment |-> Absent,
     aiEstimate |-> Absent,
     currentEstimate |-> Absent,
     repairShopEstimate |-> Absent,
     agentEstimate |-> Absent,
     suggestedShops |-> Absent,
     comments |-> <<>>,
     updatedAt |-> t]

\* a variant of WithAiResults that does not make the AI estimate current
WithAiResultsNoCurrent(c, processedImages, analysis, shops) ==
    [c EXCEPT !.damageImages = processedImages,
              !.aiDamageAssessment = analysis.assessment,
              !.aiEstimate = Some(analysis.estimate),
              !.suggestedShops = Some(shops),
              !.status = Estimated]

\* a variant of WithAiResults that leaves the status as it is
WithAiResultsKeepsStatus(c, processedImages, analysis, shops) ==
    [c EXCEPT !.damageImages = processedImages,
              !.aiDamageAssessment = analysis.assessment,
              !.aiEstimate = Some(analysis.estimate),
              !.currentEstimate = Some(analysis.estimate),
              !.suggestedShops = Some(shops)]

\* a variant of WithAiResults that treats a failed shop search as a gateway failure
WithAiResultsRevertsWithoutShops(c, processedImages, analysis, shops) ==
    [c EXCEPT !.damageImages = processedImages,
              !.aiDamageAssessment = analysis.assessment,
              !.aiEstimate = Some(analysis.estimate),
              !.currentEstimate = Some(analysis.estimate),
              !.suggestedShops = Some(shops),
              !.status = IF shops = <<>> THEN Submitted ELSE Estimated]

\* a variant of WithAiResults that spreads the baseClaim captured at submission
\* instead of the stored claim
WithAiResultsFromBaseClaim(c, processedImages, analysis, shops) ==
    [c EXCEPT !.damageImages = processedImages,
              !.aiDamageAssessment = analysis.assessment,
              !.aiEstimate = Some(analysis.estimate),
              !.currentEstimate = Some(analysis.estimate),
              !.suggestedShops = Some(shops),
              !.status = Estimated,
              !.comments = <<>>,
              !.repairShopEstimate = Absent,
              !.agentEstimate = Absent]

\* step 5: the claim with the AI results
WithAiResults(c, processedImages, analysis, shops) ==
    [c EXCEPT !.damageImages = processedImages,
              !.aiDamageAssessment = analysis.assessment,
              !.aiEstimate = Some(analysis.estimate),
              !.currentEstimate = Some(analysis.estimate),
              !.suggestedShops = Some(shops),
              !.status = Estimated]

\* step 5: setClaims(prev => prev.map(c => c.id === newId ? {...} : c))
ApplyAiResults(cs, newId, processedImages, analysis, shops) ==
    [i \in DOMAIN cs |->
        IF cs[i].id = newId
        THEN WithAiResults(cs[i], processedImages, analysis, shops)
        ELSE cs[i]]

\* the catch block: prev.map(c => c.id === newId ? {...c, status: Submitted} : c)
RevertToSubmitted(cs, newId) ==
    [i \in DOMAIN cs |->
        IF cs[i].id = newId THEN [cs[i] EXCEPT !.status = Submitted] ELSE cs[i]]

----------------------------------------------------------------------------
(* The state after construction *)

Init ==
    /\ userRole = Policyholder
    /\ claims = INITIAL_CLAIMS
    /\ selectedClaimId = "null"
    /\ intake = Idle
    /\ now = 0

----------------------------------------------------------------------------
(* App: role switcher and sidebar *)

\* onClick={() => setUserRole(role)}
setUserRole(role) ==
    /\ userRole' = role
    /\ UNCHANGED <<claims, selectedClaimId, intake, now>>

\* onClick={() => setSelectedClaimId(claim.id)} on a sidebar entry
setSelectedClaimId(id) ==
    /\ id \in Ids(claims)
    /\ selectedClaimId' = id
    /\ UNCHANGED <<userRole, claims, intake, now>>

----------------------------------------------------------------------------
(* CreateClaimModal.handleSubmit and handleCreateClaim.                      *)
(* isCreateModalOpen is view state only and is not a variable: the modal is   *)
(* opened with the New Claim button (rendered unless the role is Repair       *)
(* Shop), its backdrop covers the page while it is open, and its X and Cancel *)
(* buttons close it at any time, also while a submission is pending.  So the  *)
(* form is submitted under a role other than Repair Shop, and the page is     *)
(* used again as soon as the user has closed the modal.                       *)

\* handleSubmit up to the first await of handleCreateClaim.  Whatever happens next
\* happens later: the clock has moved on when the handler yields, so that no two
\* submissions read the same millisecond.
SubmitClaim(policyNumber, nImages) ==
    /\ userRole # RepairShop
    /\ ~loading
    /\ IF policyNumber = "" \/ nImages = 0
       THEN UNCHANGED vars
       ELSE LET newId == DateNowString(now)
            IN  /\ Len(claims) < MaxClaims
                /\ claims' = <<BaseClaim(newId, policyNumber, now)>> \o claims
                /\ selectedClaimId' = newId
                /\ intake' = [pc |-> "images", newId |-> newId, nImages |-> nImages]
                /\ now' = now + 1
                /\ UNCHANGED userRole

\* handleCreateClaim's catch block; handleSubmit then resumes with setLoading(false)
IntakeCatch ==
    /\ claims' = RevertToSubmitted(claims, intake.newId)
    /\ intake' = Idle
    /\ UNCHANGED <<userRole, selectedClaimId, now>>

\* step 2 resolves: every image was read
ImagesEncoded ==
    /\ intake.pc = "images"
    /\ intake' = [pc |-> "analyze", newId |-> intake.newId, nImages |-> intake.nImages,
                  processedImages |-> [i \in 1..intake.nImages |-> Base64Image]]
    /\ UNCHANGED <<userRole, claims, selectedClaimId, now>>

\* step 2 rejects: reader.onerror
ImagesFailed ==
    /\ intake.pc = "images"
    /\ IntakeCatch

\* step 3 resolves: analyzeDamage returns, from its try or from its catch
AnalysisReturned(outcome) ==
    /\ intake.pc = "analyze"
    /\ intake' = [pc |-> "shops", newId |-> intake.newId,
                  processedImages |-> intake.processedImages,
                  analysis |-> analyzeDamage(outcome)]
    /\ UNCHANGED <<userRole, claims, selectedClaimId, now>>

\* step 3 rejects: analyzeDamage reads the images again before its try block
AnalysisRejected ==
    /\ intake.pc = "analyze"
    /\ IntakeCatch

\* step 4 resolves (findRepairShops never rejects) and step 5 follows at once;
\* handleSubmit then resumes with setLoading(false)
ShopsReturned(outcome) ==
    /\ intake.pc = "shops"
    /\ claims' = ApplyAiResults(claims, intake.newId, intake.processedImages,
                                intake.analysis, findRepairShops(outcome))
    /\ intake' = Idle
    /\ UNCHANGED <<userRole, selectedClaimId, now>>

----------------------------------------------------------------------------
(* ClaimDetail, rendered for the selected claim *)

DetailReachable == HasSelectedClaim

isAgent == userRole = InsuranceAgent
isShop == userRole = RepairShop
isPolicyholder == userRole = Policyholder

NonTerminal(status) == status # Closed /\ status # Rejected

UpdateClaim(updatedClaim) ==
    /\ claims' = handleUpdateClaim(claims, updatedClaim)
    /\ UNCHANGED <<userRole, selectedClaimId, intake, now>>

\* the comment box: Enter or the send button
handleAddComment(commentText) ==
    /\ DetailReachable
    /\ IF trim(commentText) = <<>>
       THEN UNCHANGED vars
       ELSE /\ TotalComments(claims) < MaxComments
            /\ UpdateClaim(AddedComment(selectedClaim, userRole, commentText))

\* a variant of handleApproveEstimate whose button is also rendered on a Submitted claim
handleApproveEstimateOnSubmitted ==
    /\ DetailReachable
    /\ isAgent /\ selectedClaim.status \in {Submitted, Estimated}
    /\ UpdateClaim(ApprovedClaim(selectedClaim))

\* Approve Estimate, rendered for the agent on an Estimated claim
handleApproveEstimate ==
    /\ DetailReachable
    /\ isAgent /\ selectedClaim.status = Estimated
    /\ UpdateClaim(ApprovedClaim(selectedClaim))

\* Start Repair, rendered for the shop on an Approved claim
StartRepair ==
    /\ DetailReachable
    /\ isShop /\ selectedClaim.status = Approved
    /\ UpdateClaim(StatusChanged(selectedClaim, InRepair))

\* Repair Completed, rendered for the shop on a claim In Repair
RepairCompleted ==
    /\ DetailReachable
    /\ isShop /\ selectedClaim.status = InRepair
    /\ UpdateClaim(StatusChanged(selectedClaim, PickUpPending))

\* Inspection & Pick Up Completed, rendered for the policyholder
PickUpCompleted ==
    /\ DetailReachable
    /\ isPolicyholder /\ selectedClaim.status = PickUpPending
    /\ UpdateClaim(StatusChanged(selectedClaim, Closed))

\* Deny and Reject Claim; the block is rendered for the agent on a claim that is
\* neither Closed nor Rejected
handleRejectClaim(rejectReason) ==
    /\ DetailReachable
    /\ isAgent /\ NonTerminal(selectedClaim.status)
    /\ IF rejectReason = ""
       THEN UNCHANGED vars
       ELSE /\ TotalComments(claims) < MaxComments
            /\ UpdateClaim(RejectedClaim(selectedClaim, rejectReason))

\* Submit Adjustment; the form is rendered for the shop and the agent on a claim
\* that is neither Closed nor Rejected
handleNegotiate(negotiationAmount, negotiationReason) ==
    /\ DetailReachable
    /\ (isShop \/ isAgent) /\ NonTerminal(selectedClaim.status)
    /\ IF negotiationAmount = <<>> \/ negotiationReason = ""
       THEN UNCHANGED vars
       ELSE /\ TotalComments(claims) < MaxComments
            /\ UpdateClaim(NegotiatedClaim(selectedClaim, userRole,
                                           negotiationAmount, negotiationReason))

----------------------------------------------------------------------------

Next ==
    \/ \E role \in UserRole : setUserRole(role)
    \/ \E id \in Ids(claims) : setSelectedClaimId(id)
    \/ \E p \in PolicyNumbers, n \in ImageCounts : SubmitClaim(p, n)
    \/ ImagesEncoded
    \/ ImagesFailed
    \/ \E outcome \in GenerateOutcomes : AnalysisReturned(outcome)
    \/ AnalysisRejected
    \/ \E outcome \in SearchOutcomes : ShopsReturned(outcome)
    \/ \E text \in CommentTexts : handleAddComment(text)
    \/ handleApproveEstimate
    \/ StartRepair
    \/ RepairCompleted
    \/ PickUpCompleted
    \/ \E reason \in RejectReasons : handleRejectClaim(reason)
    \/ \E amount \in NegotiationAmounts, reason \in NegotiationReasons :
            handleNegotiate(amount, reason)

Spec == Init /\ [][Next]_vars

\* a step of the pending handleCreateClaim call: one of its awaits settles
IntakeStep ==
    \/ ImagesEncoded
    \/ ImagesFailed
    \/ \E outcome \in GenerateOutcomes : AnalysisReturned(outcome)
    \/ AnalysisRejected
    \/ \E outcome \in SearchOutcomes : ShopsReturned(outcome)

\* Every promise handleCreateClaim awaits settles: the FileReader fires onloadend or
\* onerror, and each generateContent call resolves or rejects.
FairSpec == Spec /\ WF_vars(IntakeStep)

----------------------------------------------------------------------------
(* Vocabulary of the properties *)

\* the claim with this id before and after a step (ids are never removed)
Before(id) == Find(claims, id)
After(id) == Find(claims', id)

Terminal(status) == status \in {Closed, Rejected}

\* the step is a ClaimDetail action taken under this role
ActsAs(role) == userRole = role /\ userRole' = role /\ intake' = intake

\* the step ends the handleCreateClaim call of this claim, by step 5 or by the catch
IntakeSettles(id) == intake.pc # "idle" /\ intake.newId = id /\ intake'.pc = "idle"

\* the step starts the handleCreateClaim call of this claim
IntakeAccepts(id) == intake.pc = "idle" /\ intake'.pc # "idle" /\ intake'.newId = id

SameEstimates(c, d) ==
    /\ d.aiEstimate = c.aiEstimate
    /\ d.currentEstimate = c.currentEstimate
    /\ d.repairShopEstimate = c.repairShopEstimate
    /\ d.agentEstimate = c.agentEstimate

\* the texts handleRejectClaim can write
RejectionTexts == { "CLAIM REJECTED: " \o r : r \in RejectReasons \ {""} }

IsRejectionComment(cm) == cm.text \in RejectionTexts /\ cm.authorRole = InsuranceAgent

RejectionCount(comments) ==
    Cardinality({ k \in DOMAIN comments : IsRejectionComment(comments[k]) })

ValidAmounts == NegotiationAmounts \ {<<>>}
ValidReasons == NegotiationReasons \ {""}

----------------------------------------------------------------------------
(* C1: in every step, a claim's status changes only along a row of the       *)
(* transition table: Submitted -> AI Review (intake), AI Review -> Estimated  *)
(* (AI completion), AI Review -> Submitted (gateway failure), Estimated ->    *)
(* Approved (Insurance Agent), Approved -> In Repair (Repair Shop), In Repair *)
(* -> Pick Up Pending (Repair Shop), Pick Up Pending -> Closed (Policyholder),*)
(* any non-terminal status -> Rejected (Insurance Agent).                     *)

TableRow(id, from, to) ==
    \/ from = Submitted /\ to = AIReview /\ IntakeAccepts(id)
    \/ from = AIReview /\ to = Estimated /\ IntakeSettles(id)
    \/ from = AIReview /\ to = Submitted /\ IntakeSettles(id)
    \/ from = Estimated /\ to = Approved /\ ActsAs(InsuranceAgent)
    \/ from = Approved /\ to = InRepair /\ ActsAs(RepairShop)
    \/ from = InRepair /\ to = PickUpPending /\ ActsAs(RepairShop)
    \/ from = PickUpPending /\ to = Closed /\ ActsAs(Policyholder)
    \/ ~Terminal(from) /\ to = Rejected /\ ActsAs(InsuranceAgent)

C1_StatusFollowsTable ==
    [][\A id \in Ids(claims) :
          Before(id).status # After(id).status
              => TableRow(id, Before(id).status, After(id).status)]_vars

(* C2: once a claim's status is Closed or Rejected, its status, aiEstimate,  *)
(* currentEstimate, repairShopEstimate and agentEstimate never change again,  *)
(* also when its intake settles afterwards.                                   *)
C2_TerminalIsFinal ==
    [][\A id \in Ids(claims) :
          Terminal(Before(id).status)
              => /\ After(id).status = Before(id).status
                 /\ SameEstimates(Before(id), After(id))]_vars

(* C3: in every reachable state, currentEstimate is the precedence recomputed *)
(* from the three estimate fields: agentEstimate if present, otherwise         *)
(* repairShopEstimate if present, otherwise aiEstimate.                        *)
Precedence(c) ==
    IF Present(c.agentEstimate) THEN c.agentEstimate
    ELSE IF Present(c.repairShopEstimate) THEN c.repairShopEstimate
    ELSE c.aiEstimate

C3_CurrentIsPrecedence ==
    \A i \in DOMAIN claims : claims[i].currentEstimate = Precedence(claims[i])

(* C4: a successful proposal by the Repair Shop sets repairShopEstimate to the *)
(* new estimate (source 'Repair Shop') and leaves currentEstimate and          *)
(* agentEstimate unchanged; one by the Insurance Agent sets agentEstimate and  *)
(* currentEstimate to the new estimate (source 'Insurance Agent') and leaves   *)
(* repairShopEstimate unchanged; neither changes status or aiEstimate.         *)
IsNewEstimate(e, amountText, reason, source) ==
    /\ Present(e)
    /\ e[1].totalCost = parseFloat(amountText)
    /\ e[1].details = reason
    /\ e[1].source = source

ProposalRouted(c, d, amountText, reason) ==
    /\ d.status = c.status
    /\ d.aiEstimate = c.aiEstimate
    /\ isShop =>
          /\ IsNewEstimate(d.repairShopEstimate, amountText, reason, "Repair Shop")
          /\ d.currentEstimate = c.currentEstimate
          /\ d.agentEstimate = c.agentEstimate
    /\ isAgent =>
          /\ IsNewEstimate(d.agentEstimate, amountText, reason, "Insurance Agent")
          /\ d.currentEstimate = d.agentEstimate
          /\ d.repairShopEstimate = c.repairShopEstimate

C4_ProposalRouting ==
    [][\A amountText \in ValidAmounts, reason \in ValidReasons :
          handleNegotiate(amountText, reason)
              => ProposalRouted(selectedClaim, After(selectedClaimId), amountText, reason)]_vars

\* both roles have proposed on one claim: the shop's estimate is stored, the agent's
\* is stored and current
C4_Witness ==
    \E i \in DOMAIN claims :
        /\ Present(claims[i].repairShopEstimate)
        /\ claims[i].repairShopEstimate[1].source = "Repair Shop"
        /\ Present(claims[i].agentEstimate)
        /\ claims[i].agentEstimate[1].source = "Insurance Agent"
        /\ claims[i].currentEstimate = claims[i].agentEstimate
        /\ claims[i].currentEstimate # claims[i].aiEstimate

(* C5: an agent rejection with a non-empty reason, on a claim in a           *)
(* non-terminal status, sets status to Rejected and appends exactly one        *)
(* comment, as the last element, with text 'CLAIM REJECTED: <reason>' and      *)
(* authorRole Insurance Agent; and no state of the store has a rejection       *)
(* comment on a claim whose status is not Rejected, or a Rejected claim        *)
(* without the comment.                                                        *)
RejectApplied(c, d, reason) ==
    /\ d.status = Rejected
    /\ Len(d.comments) = Len(c.comments) + 1
    /\ SubSeq(d.comments, 1, Len(c.comments)) = c.comments
    /\ d.comments[Len(d.comments)].text = "CLAIM REJECTED: " \o reason
    /\ d.comments[Len(d.comments)].authorRole = InsuranceAgent

C5_RejectStep ==
    \A reason \in RejectReasons \ {""} :
        handleRejectClaim(reason)
            => RejectApplied(selectedClaim, After(selectedClaimId), reason)

C5_RejectionCommentIffRejected ==
    \A i \in DOMAIN claims :
        (RejectionCount(claims[i].comments) > 0) <=> (claims[i].status = Rejected)

C5_RejectIsAtomic ==
    [][C5_RejectStep]_vars /\ []C5_RejectionCommentIffRejected

(* C6: once a claim has been rejected, no second rejection of it succeeds: no *)
(* claim ever carries more than one 'CLAIM REJECTED: ...' comment.             *)
C6_RejectedOnce ==
    \A i \in DOMAIN claims : RejectionCount(claims[i].comments) <= 1

(* C7: every successful estimate proposal appends exactly one comment, as the *)
(* last element, authored by the proposing role (Repair Shop or Insurance      *)
(* Agent), with text 'Proposed new estimate: <formatted amount>. Reason:       *)
(* <justification>', in the same update as the estimate write; and no such     *)
(* comment is appended without an estimate field being written.                *)
ProposalTexts ==
    { "Proposed new estimate: " \o formatCurrency(parseFloat(a)) \o ". Reason: " \o r :
        a \in ValidAmounts, r \in ValidReasons }

EstimateWritten(c, d) ==
    \/ d.repairShopEstimate # c.repairShopEstimate
    \/ d.agentEstimate # c.agentEstimate
    \/ /\ d.comments[Len(d.comments)].authorRole = RepairShop
       /\ Present(d.repairShopEstimate)
       /\ d.comments[Len(d.comments)].text =
              "Proposed new estimate: " \o formatCurrency(d.repairShopEstimate[1].totalCost)
                  \o ". Reason: " \o d.repairShopEstimate[1].details
    \/ /\ d.comments[Len(d.comments)].authorRole = InsuranceAgent
       /\ Present(d.agentEstimate)
       /\ d.comments[Len(d.comments)].text =
              "Proposed new estimate: " \o formatCurrency(d.agentEstimate[1].totalCost)
                  \o ". Reason: " \o d.agentEstimate[1].details

ProposalCommented(c, d, amountText, reason) ==
    /\ userRole \in {RepairShop, InsuranceAgent}
    /\ Len(d.comments) = Len(c.comments) + 1
    /\ SubSeq(d.comments, 1, Len(c.comments)) = c.comments
    /\ d.comments[Len(d.comments)].authorRole = userRole
    /\ d.comments[Len(d.comments)].text =
           "Proposed new estimate: " \o formatCurrency(parseFloat(amountText))
               \o ". Reason: " \o reason
    /\ IF isShop
       THEN IsNewEstimate(d.repairShopEstimate, amountText, reason, "Repair Shop")
       ELSE IsNewEstimate(d.agentEstimate, amountText, reason, "Insurance Agent")

C7_ProposalComment ==
    [][/\ \A amountText \in ValidAmounts, reason \in ValidReasons :
              handleNegotiate(amountText, reason)
                  => ProposalCommented(selectedClaim, After(selectedClaimId),
                                       amountText, reason)
       /\ \A id \in Ids(claims) :
              (/\ Len(After(id).comments) > Len(Before(id).comments)
               /\ After(id).comments[Len(After(id).comments)].text \in ProposalTexts)
                  => /\ After(id).comments[Len(After(id).comments)].authorRole
                            \in {RepairShop, InsuranceAgent}
                     /\ EstimateWritten(Before(id), After(id))]_vars

\* the shop's proposal of 1500 is stored and is the last comment of the claim
C7_Witness ==
    \E i \in DOMAIN claims :
        /\ claims[i].comments # <<>>
        /\ claims[i].comments[Len(claims[i].comments)] =
               [authorRole |-> RepairShop, authorName |-> RepairShop,
                text |-> "Proposed new estimate: $1,500.00. Reason: Found structural damage"]
        /\ Present(claims[i].repairShopEstimate)
        /\ claims[i].repairShopEstimate[1].totalCost = 1500

(* C8: every mutation of a claim sets its updatedAt: after the step updatedAt *)
(* is the time of that step, and never earlier than before.                    *)
C8_UpdatedAtIsSet ==
    [][\A id \in Ids(claims) :
          /\ After(id).updatedAt >= Before(id).updatedAt
          /\ After(id) # Before(id) => After(id).updatedAt = now]_vars

(* C9: approve estimate, vehicle received, repair completed and pickup        *)
(* confirmed are pure status changes: they leave comments, aiEstimate,         *)
(* currentEstimate, repairShopEstimate and agentEstimate as they were.         *)
PureStatusChange(c, d, to) ==
    /\ d.status = to
    /\ d.comments = c.comments
    /\ SameEstimates(c, d)

C9_PureStatusChange ==
    [][/\ handleApproveEstimate
            => PureStatusChange(selectedClaim, After(selectedClaimId), Approved)
       /\ StartRepair
            => PureStatusChange(selectedClaim, After(selectedClaimId), InRepair)
       /\ RepairCompleted
            => PureStatusChange(selectedClaim, After(selectedClaimId), PickUpPending)
       /\ PickUpCompleted
            => PureStatusChange(selectedClaim, After(selectedClaimId), Closed)]_vars

\* a claim has gone through all four transitions after the agent had replaced the
\* current estimate, and still carries that estimate and its comments
C9_Witness ==
    \E i \in DOMAIN claims :
        /\ claims[i].status = Closed
        /\ Present(claims[i].agentEstimate)
        /\ claims[i].currentEstimate = claims[i].agentEstimate
        /\ claims[i].currentEstimate # claims[i].aiEstimate
        /\ claims[i].comments # <<>>

(* C10: a reject or propose-estimate action with malformed input (empty       *)
(* rejection reason; empty justification; missing or negative total amount)    *)
(* is refused before any state mutation: status, estimates and comments of     *)
(* the claim are unchanged.  (An <input type="number"> delivers the empty      *)
(* string for text that is not a finite number, so non-numeric and non-finite  *)
(* amounts reach the handler as a missing amount.)                             *)
MalformedProposal(amountText, reason) ==
    \/ amountText = <<>>
    \/ reason = ""
    \/ parseFloat(amountText) < 0

C10_MalformedRefused ==
    [][/\ \A amountText \in NegotiationAmounts, reason \in NegotiationReasons :
              (MalformedProposal(amountText, reason) /\ handleNegotiate(amountText, reason))
                  => claims' = claims
       /\ handleRejectClaim("") => claims' = claims]_vars

----------------------------------------------------------------------------
\* the fields of Estimate
EstimateFields == {"totalCost", "laborCost", "partsCost", "details", "source"}

\* an analysis with an assessment and every field of the estimate
WellFormedAnalysis(a) ==
    /\ Present(a.assessment)
    /\ DOMAIN a.estimate = EstimateFields

\* the step in which the pending analyzeDamage call settles, either way
AnalyzeSettles == intake.pc = "analyze" /\ intake'.pc # "analyze"

\* the outcomes of generateContent that are failures of the call
FailedGenerateOutcomes == {"empty", "throws"}

(* C11: analyzeDamage never propagates a failure to its caller: however the   *)
(* invocation fails (image encoding, network error, malformed or empty         *)
(* response) it resolves with the fallback result; it never rejects and never  *)
(* returns an estimate with missing fields.                                    *)
C11_AnalyzeNeverFails ==
    [][AnalyzeSettles =>
          /\ intake'.pc = "shops"
          /\ WellFormedAnalysis(intake'.analysis)
          /\ \A outcome \in FailedGenerateOutcomes :
                AnalysisReturned(outcome) => intake'.analysis = AnalysisFallback]_vars

(* C12: findRepairShops returns the empty sequence exactly when the external  *)
(* call fails (no fallback list then, and no rejection); when the call         *)
(* succeeds it returns a non-empty sequence: the extracted suggestions, or     *)
(* the three built-in suggestions when none could be extracted.                *)
ShopsOf(c) == c.suggestedShops[1]

C12_ShopsEmptyIffFailed ==
    [][\A outcome \in SearchOutcomes :
          ShopsReturned(outcome) =>
              LET d == After(intake.newId)
              IN  /\ Present(d.suggestedShops)
                  /\ (ShopsOf(d) = <<>>) <=> (outcome = "throws")
                  /\ outcome = "chunks" => ShopsOf(d) = WebShops
                  /\ outcome = "nochunks" => ShopsOf(d) = BuiltinShops /\ Len(ShopsOf(d)) = 3]_vars

\* an intake has completed after a failed search: the claim has an empty list
C12_Witness ==
    \E i \in DOMAIN claims :
        /\ claims[i].id # "1"
        /\ claims[i].status = Estimated
        /\ claims[i].suggestedShops = Some(<<>>)

(* C13: when the AI call inside analyzeDamage fails during intake, the claim  *)
(* is still advanced to Estimated, with the fallback assessment and with       *)
(* aiEstimate = currentEstimate = the zero-cost fallback estimate; it is not   *)
(* reverted to Submitted.                                                      *)
FallbackApplied(d) ==
    /\ d.status = Estimated
    /\ d.aiDamageAssessment = Some("AI Analysis unavailable. Please review manually.")
    /\ d.aiEstimate = Some(Estimate(0, 0, 0, "Manual estimation required.", "AI"))
    /\ d.currentEstimate = d.aiEstimate

----------------------------------------------------------------------------
(* C14: a claim created through intake is in the store with status AI Review  *)
(* at once, before any gateway call resolves; when the gateway calls resolve   *)
(* successfully it gets status Estimated with aiEstimate present and           *)
(* suggestedShops non-empty; every pending intake settles, and no claim is in  *)
(* AI Review once its gateway calls have resolved.                             *)
C14_Accepted ==
    \A id \in Ids(claims') \ Ids(claims) :
        /\ claims'[1].id = id
        /\ claims'[1].status = AIReview
        /\ intake'.pc = "images" /\ intake'.newId = id

C14_Completed ==
    \A outcome \in SearchOutcomes \ {"throws"} :
        ShopsReturned(outcome) =>
            LET d == After(intake.newId)
            IN  /\ d.status = Estimated
                /\ Present(d.aiEstimate)
                /\ Present(d.suggestedShops) /\ ShopsOf(d) # <<>>

C14_NoneLeftInReview ==
    intake.pc = "idle" => \A i \in DOMAIN claims : claims[i].status # AIReview

C14_IntakeReachesEstimated ==
    /\ [][C14_Accepted /\ C14_Completed]_vars
    /\ []C14_NoneLeftInReview
    /\ (intake.pc # "idle") ~> (intake.pc = "idle")

\* a submitted claim has come out of a successful intake
C14_Witness ==
    \E i \in DOMAIN claims :
        /\ claims[i].id # "1"
        /\ intake.pc = "idle"
        /\ claims[i].status = Estimated
        /\ claims[i].aiEstimate = Some(AnalysisOk.estimate)
        /\ claims[i].suggestedShops = Some(BuiltinShops)

----------------------------------------------------------------------------
IsPrefix(s, t) == Len(s) <= Len(t) /\ SubSeq(t, 1, Len(s)) = s

(* C15: comments is append-only for every claim: in every step the comments   *)
(* sequence before the step is a prefix of the comments sequence after it.     *)
C15_CommentsAppendOnly ==
    [][\A id \in Ids(claims) :
          IsPrefix(Before(id).comments, After(id).comments)]_vars

\* the thread of the first claim has grown twice behind its first comment
C15_Witness ==
    \E i \in DOMAIN claims :
        /\ Len(claims[i].comments) = 3
        /\ claims[i].comments[1] = INITIAL_CLAIMS[1].comments[1]
        /\ claims[i].comments[2] # claims[i].comments[3]

(* C16: in every reachable state in which a claim's agentEstimate is present, *)
(* currentEstimate equals agentEstimate, also when the agent proposed during   *)
(* AI Review and the intake completed afterwards, and when the Repair Shop     *)
(* proposes after the agent.                                                   *)
C16_AgentStaysCurrent ==
    \A i \in DOMAIN claims :
        Present(claims[i].agentEstimate)
            => claims[i].currentEstimate = claims[i].agentEstimate

----------------------------------------------------------------------------
(* C17 as stated: the intake's reversion to Submitted is unreachable; no      *)
(* claim created through handleCreateClaim is ever observed with status        *)
(* Submitted, for any outcome of image encoding, analyzeDamage and             *)
(* findRepairShops.                                                            *)
C17_SubmittedUnreachable ==
    \A i \in DOMAIN claims : claims[i].status # Submitted

\* the step in which reading an image fails: in step 2 of handleCreateClaim, or in
\* the read analyzeDamage starts before its try block
ImageReadFails == ImagesFailed \/ AnalysisRejected

(* C17 as amended: a claim gets status Submitted only in the step in which    *)
(* reading one of its images fails, and then it is the claim of the pending    *)
(* intake; no outcome of the AI calls (generateContent in analyzeDamage,       *)
(* findRepairShops) makes a claim Submitted.                                   *)
C17_SubmittedOnlyOnImageFailure ==
    [][/\ \A id \in Ids(claims) :
              (After(id).status = Submitted /\ Before(id).status # Submitted)
                  => ImageReadFails /\ intake.newId = id
       /\ ImageReadFails => After(intake.newId).status = Submitted
       /\ \A outcome \in GenerateOutcomes :
              AnalysisReturned(outcome) => claims' = claims
       /\ \A outcome \in SearchOutcomes :
              ShopsReturned(outcome) => After(intake.newId).status = Estimated]_vars

\* the intake of a claim has ended in its catch block
C17_Witness ==
    \E i \in DOMAIN claims :
        /\ claims[i].id # "1"
        /\ claims[i].status = Submitted
        /\ intake.pc = "idle"

(* C18: every operation changes at most the one claim it targets; every other *)
(* claim of the store is unchanged, no claim is removed, and a new claim is    *)
(* inserted at the front without reordering the existing ones.                 *)
ChangedIds == { id \in Ids(claims) : After(id) # Before(id) }

----------------------------------------------------------------------------
(* C19: adding a comment is possible for every role in every status, Closed   *)
(* and Rejected included; with non-blank text it appends exactly one comment   *)
(* authored by the acting role as the last element and leaves status and all   *)
(* estimate fields unchanged; with empty or whitespace-only text it changes    *)
(* nothing, so every comment created this way has non-empty text.              *)
CommentAdded(c, d, text) ==
    /\ d.comments = Append(c.comments,
                           [authorRole |-> userRole, authorName |-> userRole,
                            text |-> Str(text)])
    /\ Str(text) # ""
    /\ d.status = c.status
    /\ SameEstimates(c, d)

C19_CommentStep ==
    \A text \in CommentTexts :
        handleAddComment(text) =>
            IF trim(text) = <<>>
            THEN claims' = claims
            ELSE /\ CommentAdded(selectedClaim, After(selectedClaimId), text)
                 /\ \A id \in Ids(claims) \ {selectedClaimId} : After(id) = Before(id)

\* whatever the role and the status of the selected claim, the comment box takes a
\* comment (as long as the store is below the bound on comments)
C19_CommentPossible ==
    (HasSelectedClaim /\ TotalComments(claims) < MaxComments)
        => ENABLED (handleAddComment(<<"h", "i">>) /\ claims' # claims)

C19_AddComment ==
    [][C19_CommentStep]_vars /\ []C19_CommentPossible

\* the repair shop has commented on a claim after its rejection
C19_Witness ==
    \E i \in DOMAIN claims :
        LET n == Len(claims[i].comments)
        IN  /\ claims[i].status = Rejected
            /\ n >= 2
            /\ IsRejectionComment(claims[i].comments[n - 1])
            /\ claims[i].comments[n] =
                   [authorRole |-> RepairShop, authorName |-> RepairShop, text |-> "hi"]

(* C20: no update made while the intake is pending is lost when it completes: *)
(* the comments, repairShopEstimate and agentEstimate a claim has before the   *)
(* AI-result update are in the claim, unchanged, after it.                     *)
C20_NoLostUpdate ==
    [][\A outcome \in SearchOutcomes :
          ShopsReturned(outcome) =>
              LET c == Before(intake.newId)
                  d == After(intake.newId)
              IN  /\ d.comments = c.comments
                  /\ d.repairShopEstimate = c.repairShopEstimate
                  /\ d.agentEstimate = c.agentEstimate
                  /\ d.id = c.id
                  /\ d.policyNumber = c.policyNumber
                  /\ d.updatedAt = c.updatedAt]_vars

\* the agent proposed before the AI-result update (which made the AI estimate
\* current again); the claim still has the agent's estimate and every comment
C20_Witness ==
    \E i \in DOMAIN claims :
        /\ claims[i].id # "1"
        /\ claims[i].status = Estimated
        /\ intake.pc = "idle"
        /\ Present(claims[i].agentEstimate)
        /\ Present(claims[i].repairShopEstimate)
        /\ claims[i].currentEstimate = claims[i].aiEstimate
        /\ Len(claims[i].comments) = 2

----------------------------------------------------------------------------
\* the statuses on the main path from the AI result on
PastAiReview == {Estimated, Approved, InRepair, PickUpPending, Closed}

(* C21: in every reachable state, a claim whose status is Estimated,          *)
(* Approved, In Repair, Pick Up Pending or Closed has aiEstimate,              *)
(* aiDamageAssessment and currentEstimate present: a claim is approved or      *)
(* closed only after an AI result, real or fallback, has been stored on it.    *)
C21_AiResultStored ==
    \A i \in DOMAIN claims :
        claims[i].status \in PastAiReview
            => /\ Present(claims[i].aiEstimate)
               /\ Present(claims[i].aiDamageAssessment)
               /\ Present(claims[i].currentEstimate)

----------------------------------------------------------------------------
\* the handleCreateClaim call of this claim is pending
IntakePending(id) == intake.pc # "idle" /\ intake.newId = id
IntakePendingAfter(id) == intake'.pc # "idle" /\ intake'.newId = id

\* the claim was left behind by the intake's error handler: it is Submitted, or it
\* was rejected and no intake is pending on it
LeftBehind(id) ==
    \/ Before(id).status = Submitted
    \/ Before(id).status = Rejected /\ ~IntakePending(id)

(* C22: a claim reverted to Submitted by the intake's error handler makes no  *)
(* progress on the main path: from Submitted no action of any role re-runs     *)
(* intake or advances the status, the only status it can change to is          *)
(* Rejected, by the Insurance Agent, and it never reaches Estimated, Approved  *)
(* or Closed.                                                                  *)
C22_Step ==
    \A id \in Ids(claims) :
        LeftBehind(id) =>
            /\ ~IntakePending(id)
            /\ ~IntakePendingAfter(id)
            /\ After(id).status \in {Before(id).status, Rejected}
            /\ After(id).status # Before(id).status
                   => /\ isAgent
                      /\ selectedClaimId = id
                      /\ \E reason \in RejectReasons \ {""} : handleRejectClaim(reason)

====
